---- MODULE Spec2Model ----
(***************************************************************************)
(* Model of cartesian-composition (src/src/index.js).                      *)
(*                                                                         *)
(* cartesianComposition(...args)(...params) walks the groups `args` with   *)
(* an explicit stack, composes one node per group for every element of     *)
(* the product and, for every complete path, the paths obtained by leaving *)
(* out its optional nodes, unless the ledger alreadyComposedPathsMap       *)
(* already holds the reduced path.                                         *)
(*                                                                         *)
(* Indices (argIndex, index, positions of a path) are 0-based as in the    *)
(* source; TLA+ sequences are 1-based, so args[argIndex + 1] is the        *)
(* source's args[argIndex].                                                *)
(***************************************************************************)
EXTENDS Integers, Sequences, FiniteSets, TLC

(***************************************************************************)
(* Bounds of the model.                                                    *)
(***************************************************************************)
MaxGroups == 2
MaxNodes == 2
MaxMarks == 3
MaxPlainGroups == 3
MaxPlainNodes == 2

(***************************************************************************)
(* JavaScript values that occur in the arguments: a function (known by its *)
(* name), a number, an array of values.                                    *)
(***************************************************************************)
Fn(name) == [t |-> "fn", name |-> name, n |-> 0, items |-> <<>>]

Num(n) == [t |-> "num", name |-> "", n |-> n, items |-> <<>>]

Arr(items) == [t |-> "arr", name |-> "", n |-> 0, items |-> items]

OPTIONAL == 1

Undefined == -1

isArray(x) == x.t = "arr"

\* Number(x) is not NaN: a number; an empty array (0); a one-element array
\* whose element is (its string is the element's string).
RECURSIVE CoercibleToNumber(_)
CoercibleToNumber(x) ==
  \/ x.t = "num"
  \/ /\ x.t = "arr"
     /\ \/ Len(x.items) = 0
        \/ Len(x.items) = 1 /\ CoercibleToNumber(x.items[1])

areArrayItemsAllCoercibleToNumber(array) ==
  \A k \in 1..Len(array.items) : CoercibleToNumber(array.items[k])

\* The property key a value becomes when it indexes an object (String(x)).
RECURSIVE PropertyKey(_)
PropertyKey(x) ==
  IF x.t = "num" THEN ToString(x.n)
  ELSE IF x.t = "fn" THEN "function " \o x.name
  ELSE IF Len(x.items) = 0 THEN ""
  ELSE IF Len(x.items) = 1 THEN PropertyKey(x.items[1])
  ELSE PropertyKey(x.items[1]) \o "," \o PropertyKey(Arr(Tail(x.items)))

(***************************************************************************)
(* The inputs.  A function is named after its group and position.          *)
(***************************************************************************)
FnName(g, i) == "f" \o ToString(g) \o ToString(i)

\* Kinds of declarations: a plain function, a function made optional by
\* wrapping it in an array behind a padding array.
PlainDecl(g, i) == Fn(FnName(g, i))

OptionalDecl(g, i) == Arr(<<Arr(<<Num(OPTIONAL)>>), Fn(FnName(g, i))>>)

\* A group of `size` declarations; marker = 1 prepends [OPTIONAL];
\* kinds[k] says whether the k-th declaration is optional by itself.
Group(g, marker, kinds) ==
  (IF marker = 1 THEN <<Arr(<<Num(OPTIONAL)>>)>> ELSE <<>>) \o
  [k \in 1..Len(kinds) |->
     IF kinds[k] = 1 THEN OptionalDecl(g, k - 1 + marker)
     ELSE PlainDecl(g, k - 1 + marker)]

SeqsUpTo(S, n) == UNION {[1..k -> S] : k \in 0..n}

\* Shapes of one group: <<marker, kinds>>.
PlainShapes == {<<0, ks>> : ks \in SeqsUpTo({0}, MaxPlainNodes)}

\* The groups of the examples in the documentation of cartesianComposition.
DocA == <<Fn("a"), Fn("b"), Fn("c")>>

DocB == <<Fn("d"), Fn("e"), Fn("f"), Fn("g")>>

DocC == <<Fn("h"), Fn("i")>>

DocOptionalB == <<Arr(<<Num(OPTIONAL)>>)>> \o DocB

DocOptionalI == <<Fn("h"), Arr(<<Arr(<<Num(OPTIONAL)>>), Fn("i")>>)>>

DocExamples ==
  {<<DocA, DocB, DocC>>,
   <<DocA, DocOptionalB, DocC>>,
   <<DocA, DocOptionalB, DocOptionalI>>}

\* With or without the group's padding array; the functions that are
\* optional by themselves are the last ones of the group.
OptionalShapes ==
  {0, 1} \X {ks \in SeqsUpTo({0, 1}, MaxNodes) :
               \A i, j \in 1..Len(ks) : i < j => ks[i] <= ks[j]}

ArgsOf(shapes) ==
  [g \in 1..Len(shapes) |-> Group(g - 1, shapes[g][1], shapes[g][2])]

RECURSIVE Sum(_)
Sum(s) == IF s = <<>> THEN 0 ELSE Head(s) + Sum(Tail(s))

\* The number of padding arrays in the groups of the given shapes.
Marks(shapes) == Sum([g \in 1..Len(shapes) |-> shapes[g][1] + Sum(shapes[g][2])])

\* Up to MaxPlainGroups groups without padding arrays of up to MaxPlainNodes
\* functions; up to MaxGroups groups of up to MaxNodes functions with up to
\* MaxMarks padding arrays; the documented examples.
Inputs ==
  {ArgsOf(s) : s \in SeqsUpTo(PlainShapes, MaxPlainGroups)} \cup
  {ArgsOf(s) : s \in {t \in SeqsUpTo(OptionalShapes, MaxGroups) :
                        Marks(t) <= MaxMarks}} \cup
  DocExamples

ParamsSet == {<<1, 2, 3>>}

(***************************************************************************)
(* Inputs whose declarations are arrays: chains of functions, with or      *)
(* without an array in first position.                                     *)
(***************************************************************************)
MaxShapeGroups == 2
MaxShapeNodes == 2

\* The kinds of declarations built around the function FnName(g, i):
\*   0  f            1  [f, z]            2  [f]
\*   3  [[x], f]     4  [[OPTIONAL], f, z]
\* and kind 5: f in a group that starts with [OPTIONAL].
ShapeKinds == 0..5

ChainedName(g, i) == "z" \o ToString(g) \o ToString(i)

PaddedName(g, i) == "x" \o ToString(g) \o ToString(i)

ShapeDecl(kind, g, i) ==
  CASE kind = 1 -> Arr(<<Fn(FnName(g, i)), Fn(ChainedName(g, i))>>)
    [] kind = 2 -> Arr(<<Fn(FnName(g, i))>>)
    [] kind = 3 -> Arr(<<Arr(<<Fn(PaddedName(g, i))>>), Fn(FnName(g, i))>>)
    [] kind = 4 -> Arr(<<Arr(<<Num(OPTIONAL)>>), Fn(FnName(g, i)),
                         Fn(ChainedName(g, i))>>)
    [] OTHER -> Fn(FnName(g, i))

\* A group of `size` declarations of one kind.
ShapeGroup(g, kind, size) ==
  IF kind = 5
  THEN <<Arr(<<Num(OPTIONAL)>>)>> \o [k \in 1..size |-> ShapeDecl(0, g, k)]
  ELSE [k \in 1..size |-> ShapeDecl(kind, g, k - 1)]

\* Shapes of one group: <<kind, size>>; the empty group once.
GroupShapes == {<<0, 0>>} \cup (ShapeKinds \X (1..MaxShapeNodes))

ShapeArgsOf(shapes) ==
  [g \in 1..Len(shapes) |-> ShapeGroup(g - 1, shapes[g][1], shapes[g][2])]

\* The examples of the documentation with chains.
DocWrappedA == <<Arr(<<Fn("a")>>), Arr(<<Fn("b")>>), Arr(<<Fn("c")>>)>>

DocWrappedB ==
  <<Arr(<<Fn("d")>>), Arr(<<Fn("e")>>), Arr(<<Fn("f")>>), Arr(<<Fn("g")>>)>>

DocWrappedC == <<Arr(<<Fn("h")>>), Arr(<<Fn("i")>>)>>

DocChainA ==
  <<Arr(<<Fn("a"), Fn("z")>>), Arr(<<Fn("b")>>), Arr(<<Fn("c")>>)>>

DocChainExamples ==
  {<<DocChainA, DocWrappedB, DocWrappedC>>,
   <<<<Arr(<<Fn("a"), Fn("z")>>), Fn("b"), Fn("c")>>, DocB, DocC>>}

ShapeInputs ==
  {ShapeArgsOf(s) : s \in SeqsUpTo(GroupShapes, MaxShapeGroups)} \cup
  DocChainExamples


(***************************************************************************)
(* State.  args and params belong to the closure; the other variables are  *)
(* the locals of one invocation of the returned function.  returned holds  *)
(* the value returned by the latest completed invocation (<<>> before the  *)
(* first, <<value>> after); emitted is a history variable that records,    *)
(* for each entry of ret, the path it was composed from.                   *)
(***************************************************************************)
VARIABLES args, params, pc, ret, stack, optionsPaddingArrayMap,
          alreadyVisitedOptionsMap,
          alreadyVisitedCompositionOfFunctionsOptionsMap,
          alreadyComposedPathsMap, returned, emitted

vars == <<args, params, pc, ret, stack, optionsPaddingArrayMap,
          alreadyVisitedOptionsMap,
          alreadyVisitedCompositionOfFunctionsOptionsMap,
          alreadyComposedPathsMap, returned, emitted>>

l == Len(args)

EmptyMap == [x \in {} |-> 0]

(***************************************************************************)
(* Nested property helpers on optionsPaddingArrayMap.                      *)
(*   opm[argIndex] = [optionsMap |-> set of keys,                          *)
(*                    specificComposition |-> [index |-> [optionsMap]]]    *)
(***************************************************************************)
\* optionsPaddingArrayMap[argIndex] = optionsPaddingArrayMap[argIndex] || {...}
\* Variant: the group's entry is created anew every time (the `||` is lost).
EnsureGroupEntryAnew(opm, argIndex) ==
  [a \in DOMAIN opm \cup {argIndex} |->
     IF a = argIndex
     THEN [optionsMap |-> {}, specificComposition |-> EmptyMap]
     ELSE opm[a]]

EnsureGroupEntry(opm, argIndex) ==
  IF argIndex \in DOMAIN opm THEN opm
  ELSE opm @@ (argIndex :> [optionsMap |-> {},
                            specificComposition |-> EmptyMap])

\* optionsPaddingArrayMap[argIndex].optionsMap[option] = true
SetGroupOption(opm, argIndex, option) ==
  LET m == EnsureGroupEntry(opm, argIndex)
  IN  [m EXCEPT ![argIndex].optionsMap = @ \cup {PropertyKey(option)}]

\* optionsPaddingArrayMap[argIndex].specificComposition[i].optionsMap[option] = true
SetSpecificOption(opm, argIndex, i, option) ==
  LET m  == EnsureGroupEntry(opm, argIndex)
      sc == m[argIndex].specificComposition
      sc1 == IF i \in DOMAIN sc THEN sc ELSE sc @@ (i :> [optionsMap |-> {}])
      sc2 == [sc1 EXCEPT ![i].optionsMap = @ \cup {PropertyKey(option)}]
  IN  [m EXCEPT ![argIndex].specificComposition = sc2]

RECURSIVE SetGroupOptions(_, _, _, _)
SetGroupOptions(opm, argIndex, options, k) ==
  IF k > Len(options) THEN opm
  ELSE SetGroupOptions(SetGroupOption(opm, argIndex, options[k]),
                       argIndex, options, k + 1)

RECURSIVE SetSpecificOptions(_, _, _, _, _)
SetSpecificOptions(opm, argIndex, i, options, k) ==
  IF k > Len(options) THEN opm
  ELSE SetSpecificOptions(SetSpecificOption(opm, argIndex, i, options[k]),
                          argIndex, i, options, k + 1)

\* Variant: the option of the whole group is looked up in every group.
hasOptionAnyGroup(opm, optionCode, argIndex, index) ==
  IF index = Undefined
  THEN \E a \in DOMAIN opm : ToString(optionCode) \in opm[a].optionsMap
  ELSE /\ argIndex \in DOMAIN opm
       /\ index \in DOMAIN opm[argIndex].specificComposition
       /\ ToString(optionCode) \in
            opm[argIndex].specificComposition[index].optionsMap

hasOption(opm, optionCode, argIndex, index) ==
  /\ argIndex \in DOMAIN opm
  /\ IF index = Undefined
     THEN ToString(optionCode) \in opm[argIndex].optionsMap
     ELSE /\ index \in DOMAIN opm[argIndex].specificComposition
          /\ ToString(optionCode) \in
               opm[argIndex].specificComposition[index].optionsMap

(***************************************************************************)
(* addToStack(argIndex, path).  st is the record of the locals it writes:  *)
(* [stack, opm, visited, visitedInner].                                    *)
(***************************************************************************)
\* The functions of an inner array: every element but an array in first
\* position.
\* Variant: the first element of an inner array is always left out.
InnerFnsSkipFirst(possibleFn) ==
  IF possibleFn.items = <<>> THEN <<>> ELSE Tail(possibleFn.items)

InnerFns(possibleFn) ==
  LET keep == {j \in 1..Len(possibleFn.items) :
                 ~(j = 1 /\ isArray(possibleFn.items[j]))}
  IN  IF keep = {} THEN <<>>
      ELSE IF 1 \in keep THEN possibleFn.items
      ELSE Tail(possibleFn.items)

\* Variant: the first element of an inner array is a padding array only
\* when its items are numbers.
HasInnerOptionsNumeric(possibleFn) ==
  /\ Len(possibleFn.items) > 0
  /\ isArray(possibleFn.items[1])
  /\ areArrayItemsAllCoercibleToNumber(possibleFn.items[1])

HasInnerOptions(possibleFn) ==
  Len(possibleFn.items) > 0 /\ isArray(possibleFn.items[1])

\* Variant: the frame is pushed twice.
PushNodeTwice(st, node, path) ==
  [st EXCEPT !.stack = Append(Append(@, [node |-> node,
                                         path |-> Append(path, node)]),
                              [node |-> node, path |-> Append(path, node)])]

PushNode(st, node, path) ==
  [st EXCEPT !.stack = Append(@, [node |-> node, path |-> Append(path, node)])]

\* One iteration of the for loop over the declarations of a group.
ScanDeclaration(st, arg, argIndex, path, i) ==
  LET possibleFn == arg[i + 1]
      possibleFnIsArray == isArray(possibleFn)
  IN
  IF i = 0 /\ possibleFnIsArray /\ areArrayItemsAllCoercibleToNumber(possibleFn)
  THEN IF argIndex \notin st.visited
       THEN [st EXCEPT
               !.opm = SetGroupOptions(@, argIndex, possibleFn.items, 1),
               !.visited = @ \cup {argIndex}]
       ELSE st
  ELSE IF possibleFnIsArray
  THEN LET st1 ==
             IF HasInnerOptions(possibleFn) /\ <<argIndex, i>> \notin st.visitedInner
             THEN [st EXCEPT
                     !.opm = SetSpecificOptions(@, argIndex, i,
                                                possibleFn.items[1].items, 1),
                     !.visitedInner = @ \cup {<<argIndex, i>>}]
             ELSE st
           node == [fns |-> InnerFns(possibleFn),
                    argIndex |-> argIndex, index |-> i]
       IN  PushNode(st1, node, path)
  ELSE PushNode(st, [fns |-> <<possibleFn>>,
                     argIndex |-> argIndex, index |-> i], path)

\* Variant: the scan stops before position 0 (i > 0 for i >= 0).
RECURSIVE ScanFromAboveZero(_, _, _, _, _)
ScanFromAboveZero(st, arg, argIndex, path, i) ==
  IF i < 1 THEN st
  ELSE ScanFromAboveZero(ScanDeclaration(st, arg, argIndex, path, i),
                         arg, argIndex, path, i - 1)

RECURSIVE ScanFrom(_, _, _, _, _)
ScanFrom(st, arg, argIndex, path, i) ==
  IF i < 0 THEN st
  ELSE ScanFrom(ScanDeclaration(st, arg, argIndex, path, i),
                arg, argIndex, path, i - 1)

\* Variant: the declarations are scanned from position 0 upwards.
RECURSIVE ScanUpFrom(_, _, _, _, _)
ScanUpFrom(st, arg, argIndex, path, i) ==
  IF i >= Len(arg) THEN st
  ELSE ScanUpFrom(ScanDeclaration(st, arg, argIndex, path, i),
                  arg, argIndex, path, i + 1)

addToStackAscending(st, argIndex, path) ==
  ScanUpFrom(st, args[argIndex + 1], argIndex, path, 0)

addToStack(st, argIndex, path) ==
  LET arg == args[argIndex + 1]
  IN  ScanFrom(st, arg, argIndex, path, Len(arg) - 1)


(***************************************************************************)
(* Composition and expansion of a complete path.                           *)
(***************************************************************************)
\* The concatenation of the sequences of ss.
RECURSIVE Flatten(_)
Flatten(ss) == IF ss = <<>> THEN <<>> ELSE Head(ss) \o Flatten(Tail(ss))

\* Variant: only the first function of a node is composed.
NodeFnsFirstOnly(node) == IF node.fns = <<>> THEN <<>> ELSE <<node.fns[1]>>

NodeFns(node) == node.fns

NodeKeys(node) == <<node.argIndex, node.index>>

\* path.flatMap(node => node.fns)
flatMapFns(path) == Flatten([k \in 1..Len(path) |-> NodeFns(path[k])])

\* path.flatMap(node => [node.argIndex, node.index])
flatMapKeys(path) == Flatten([k \in 1..Len(path) |-> NodeKeys(path[k])])

FnNames(fns) == [k \in 1..Len(fns) |-> fns[k].name]

\* compose(f1, ..., fm)(...params) = f1(f2(...fm(...params))), kept as the
\* term it denotes: the names of the functions, outermost first, and the
\* arguments of the innermost.
compose(fns, ps) == [fns |-> FnNames(fns), params |-> ps]

composeRes(path, ps) == compose(flatMapFns(path), ps)

\* The subsequences of s of length k, in lexicographic order of positions.
RECURSIVE CombinationsOfSize(_, _)
CombinationsOfSize(s, k) ==
  IF k = 0 THEN <<<<>>>>
  ELSE IF Len(s) < k THEN <<>>
  ELSE LET withHead == CombinationsOfSize(Tail(s), k - 1)
       IN  [j \in 1..Len(withHead) |-> <<Head(s)>> \o withHead[j]] \o
           CombinationsOfSize(Tail(s), k)

\* The non-empty combinations of the items, smaller ones first.
RECURSIVE CombinationsFromSize(_, _)
CombinationsFromSize(items, k) ==
  IF k > Len(items) THEN <<>>
  ELSE CombinationsOfSize(items, k) \o CombinationsFromSize(items, k + 1)

yieldUniqueProgressiveIncrementalCombinations(items) ==
  CombinationsFromSize(items, 1)

SeqToSet(s) == {s[k] : k \in 1..Len(s)}

\* The positions i of currentPath whose node is optional.
RECURSIVE OptionalsFrom(_, _, _)
OptionalsFrom(opm, currentPath, i) ==
  IF i >= Len(currentPath) THEN <<>>
  ELSE LET currentPathNode == currentPath[i + 1]
       IN  (IF \/ hasOption(opm, OPTIONAL, currentPathNode.argIndex, Undefined)
               \/ hasOption(opm, OPTIONAL, currentPathNode.argIndex,
                            currentPathNode.index)
            THEN <<i>> ELSE <<>>) \o OptionalsFrom(opm, currentPath, i + 1)

\* Variant: only the option of the whole group is looked up.
RECURSIVE OptionalsGroupOnlyFrom(_, _, _)
OptionalsGroupOnlyFrom(opm, currentPath, i) ==
  IF i >= Len(currentPath) THEN <<>>
  ELSE (IF hasOption(opm, OPTIONAL, currentPath[i + 1].argIndex, Undefined)
        THEN <<i>> ELSE <<>>) \o OptionalsGroupOnlyFrom(opm, currentPath, i + 1)

OptionalsGroupOnly(opm, currentPath) ==
  OptionalsGroupOnlyFrom(opm, currentPath, 0)

Optionals(opm, currentPath) == OptionalsFrom(opm, currentPath, 0)

\* Variant: the nodes are filtered by their position in the group.
ReducedPathByIndex(currentPath, optionalsCombination) ==
  LET keep(node) == node.index \notin SeqToSet(optionalsCombination)
  IN  SelectSeq(currentPath, keep)

ReducedPath(currentPath, optionalsCombination) ==
  LET keep(node) == node.argIndex \notin SeqToSet(optionalsCombination)
  IN  SelectSeq(currentPath, keep)

\* Variant: the key leaves out the nodes' positions.
NodeGroupKey(node) == <<node.argIndex>>

PathKeysNoIndex(path) ==
  <<Len(path)>> \o Flatten([k \in 1..Len(path) |-> NodeGroupKey(path[k])])

PathKeys(path) == <<Len(path)>> \o flatMapKeys(path)

hasNestedPropertyValue(map, keys) == keys \in map

setNestedPropertyValue(map, keys) == map \cup {keys}

PathIds(path) == [k \in 1..Len(path) |-> NodeKeys(path[k])]

\* Variant: the reduced path is composed without consulting the ledger.
ExpandCombinationUnchecked(acc, currentPath, optionalsCombination, ps) ==
  LET path == ReducedPath(currentPath, optionalsCombination)
      keys == PathKeys(path)
  IN  [ret |-> Append(acc.ret, composeRes(path, ps)),
       composed |-> setNestedPropertyValue(acc.composed, keys),
       emitted |-> Append(acc.emitted,
                          [kind |-> "reduced", ids |-> PathIds(path),
                           from |-> PathIds(currentPath),
                           omitted |-> optionalsCombination])]

\* The body of the loop over optionalsCombinations; acc = [ret, composed,
\* emitted].
ExpandCombination(acc, currentPath, optionalsCombination, ps) ==
  LET path == ReducedPath(currentPath, optionalsCombination)
      keys == PathKeys(path)
  IN  IF ~hasNestedPropertyValue(acc.composed, keys)
      THEN [ret |-> Append(acc.ret, composeRes(path, ps)),
            composed |-> setNestedPropertyValue(acc.composed, keys),
            emitted |-> Append(acc.emitted,
                               [kind |-> "reduced", ids |-> PathIds(path),
                                from |-> PathIds(currentPath),
                                omitted |-> optionalsCombination])]
      ELSE acc

RECURSIVE ExpandFrom(_, _, _, _, _)
ExpandFrom(acc, currentPath, combinations, k, ps) ==
  IF k > Len(combinations) THEN acc
  ELSE ExpandFrom(ExpandCombination(acc, currentPath, combinations[k], ps),
                  currentPath, combinations, k + 1, ps)

\* Variant: the full composition is appended after the reduced ones.
ExpandPathFullLast(acc, opm, currentPath, ps) ==
  LET acc1 == ExpandFrom(acc, currentPath,
                yieldUniqueProgressiveIncrementalCombinations(
                  Optionals(opm, currentPath)), 1, ps)
  IN  [acc1 EXCEPT
         !.ret = Append(@, composeRes(currentPath, ps)),
         !.emitted = Append(@, [kind |-> "full",
                                ids |-> PathIds(currentPath),
                                from |-> PathIds(currentPath),
                                omitted |-> <<>>])]

\* The branch currentPath.length === l of the loop.
ExpandPath(acc, opm, currentPath, ps) ==
  LET optionals == Optionals(opm, currentPath)
      acc1 == [acc EXCEPT
                 !.ret = Append(@, composeRes(currentPath, ps)),
                 !.emitted = Append(@, [kind |-> "full",
                                        ids |-> PathIds(currentPath),
                                        from |-> PathIds(currentPath),
                                        omitted |-> <<>>])]
  IN  ExpandFrom(acc1, currentPath,
                 yieldUniqueProgressiveIncrementalCombinations(optionals),
                 1, ps)


(***************************************************************************)
(* The invocations of the function returned by cartesianComposition(args). *)
(***************************************************************************)
Init ==
  /\ args \in Inputs
  /\ params \in ParamsSet
  /\ pc = "idle"
  /\ ret = <<>>
  /\ stack = <<>>
  /\ optionsPaddingArrayMap = EmptyMap
  /\ alreadyVisitedOptionsMap = {}
  /\ alreadyVisitedCompositionOfFunctionsOptionsMap = {}
  /\ alreadyComposedPathsMap = {}
  /\ returned = <<>>
  /\ emitted = <<>>

\* if (!l) return [];
ReturnsAtOnce(n) == n = 0

\* return [];
\* Variant: the empty product is given its one (empty) composition.
NoGroupsResultIdentity(ps) == <<compose(<<>>, ps)>>

NoGroupsResult(ps) == <<>>

\* Variant: the ledger outlives the invocation.
StaleLocals ==
  [stack |-> <<>>, opm |-> EmptyMap, visited |-> {}, visitedInner |-> {},
   composed |-> alreadyComposedPathsMap]

\* The locals of a new invocation.
FreshLocals ==
  [stack |-> <<>>, opm |-> EmptyMap, visited |-> {}, visitedInner |-> {},
   composed |-> {}]

\* (...params) => { ... } with no groups: returns [] before any local exists.
CallNoGroups ==
  /\ pc = "idle"
  /\ ReturnsAtOnce(l)
  /\ returned' = <<NoGroupsResult(params)>>
  /\ UNCHANGED <<args, params, pc, ret, stack, optionsPaddingArrayMap,
                 alreadyVisitedOptionsMap,
                 alreadyVisitedCompositionOfFunctionsOptionsMap,
                 alreadyComposedPathsMap, emitted>>

\* (...params) => { ... } up to the while loop: new locals, addToStack(0).
Call ==
  /\ pc = "idle"
  /\ ~ReturnsAtOnce(l)
  /\ LET st == addToStack(FreshLocals, 0, <<>>)
     IN  /\ stack' = st.stack
         /\ optionsPaddingArrayMap' = st.opm
         /\ alreadyVisitedOptionsMap' = st.visited
         /\ alreadyVisitedCompositionOfFunctionsOptionsMap' = st.visitedInner
         /\ alreadyComposedPathsMap' = FreshLocals.composed
  /\ ret' = <<>>
  /\ emitted' = <<>>
  /\ pc' = "loop"
  /\ UNCHANGED <<args, params, returned>>

\* while (stack.length)
\* Variant: the loop stops with one frame left.
WhileConditionOffByOne(s) == Len(s) > 1

WhileCondition(s) == Len(s) # 0

Pop(s) == SubSeq(s, 1, Len(s) - 1)

Top(s) == s[Len(s)]

\* Variant: a path one node short counts as complete.
IsCompleteEarly(currentPath) == Len(currentPath) >= l - 1

IsComplete(currentPath) == Len(currentPath) = l

\* One iteration of the while loop with a complete path on top of the stack.
CompletePath ==
  /\ pc = "loop"
  /\ WhileCondition(stack)
  /\ LET current == Top(stack)
         currentPath == current.path
     IN  /\ IsComplete(currentPath)
         /\ LET acc == ExpandPath([ret |-> ret,
                                   composed |-> alreadyComposedPathsMap,
                                   emitted |-> emitted],
                                  optionsPaddingArrayMap, currentPath, params)
            IN  /\ ret' = acc.ret
                /\ alreadyComposedPathsMap' = acc.composed
                /\ emitted' = acc.emitted
  /\ stack' = Pop(stack)
  /\ UNCHANGED <<args, params, pc, optionsPaddingArrayMap,
                 alreadyVisitedOptionsMap,
                 alreadyVisitedCompositionOfFunctionsOptionsMap, returned>>

\* One iteration of the while loop with an incomplete path on top.
Descend ==
  /\ pc = "loop"
  /\ WhileCondition(stack)
  /\ LET current == Top(stack)
         currentPath == current.path
         nextIndex == current.node.argIndex + 1
     IN  /\ ~IsComplete(currentPath)
         /\ LET st == addToStack(
                        [stack |-> Pop(stack),
                         opm |-> optionsPaddingArrayMap,
                         visited |-> alreadyVisitedOptionsMap,
                         visitedInner |->
                           alreadyVisitedCompositionOfFunctionsOptionsMap],
                        nextIndex, currentPath)
            IN  /\ stack' = st.stack
                /\ optionsPaddingArrayMap' = st.opm
                /\ alreadyVisitedOptionsMap' = st.visited
                /\ alreadyVisitedCompositionOfFunctionsOptionsMap' =
                     st.visitedInner
  /\ UNCHANGED <<args, params, pc, ret, alreadyComposedPathsMap, returned,
                 emitted>>

\* The while loop ends: return ret.
Return ==
  /\ pc = "loop"
  /\ ~WhileCondition(stack)
  /\ returned' = <<ret>>
  /\ pc' = "idle"
  /\ UNCHANGED <<args, params, ret, stack, optionsPaddingArrayMap,
                 alreadyVisitedOptionsMap,
                 alreadyVisitedCompositionOfFunctionsOptionsMap,
                 alreadyComposedPathsMap, emitted>>

Next == CallNoGroups \/ Call \/ CompletePath \/ Descend \/ Return

Spec == Init /\ [][Next]_vars

\* The loop of an invocation runs on without interruption: each iteration
\* that can be taken is taken, and the function returns when the loop ends.
\* The inputs are those of Init with up to MaxFairMarks padding arrays in
\* the groups of the optional kind.
MaxFairMarks == 1

FairInputs ==
  {ArgsOf(s) : s \in SeqsUpTo(PlainShapes, MaxPlainGroups)} \cup
  {ArgsOf(s) : s \in {t \in SeqsUpTo(OptionalShapes, MaxGroups) :
                        Marks(t) <= MaxFairMarks}} \cup
  DocExamples

InitFair ==
  /\ args \in FairInputs
  /\ params \in ParamsSet
  /\ pc = "idle"
  /\ ret = <<>>
  /\ stack = <<>>
  /\ optionsPaddingArrayMap = EmptyMap
  /\ alreadyVisitedOptionsMap = {}
  /\ alreadyVisitedCompositionOfFunctionsOptionsMap = {}
  /\ alreadyComposedPathsMap = {}
  /\ returned = <<>>
  /\ emitted = <<>>

FairSpec ==
  /\ InitFair /\ [][Next]_vars
  /\ WF_vars(CompletePath)
  /\ WF_vars(Descend)
  /\ WF_vars(Return)

\* cartesianComposition is called again with the same groups, every plain
\* function f written as the one-element array [f].
WrapDeclaration(decl) == IF isArray(decl) THEN decl ELSE Arr(<<decl>>)

WrapGroups(groups) ==
  [g \in 1..Len(groups) |->
     [i \in 1..Len(groups[g]) |-> WrapDeclaration(groups[g][i])]]

WrapUnits ==
  /\ pc = "idle"
  /\ Len(returned) > 0
  /\ WrapGroups(args) # args
  /\ args' = WrapGroups(args)
  /\ UNCHANGED <<params, pc, ret, stack, optionsPaddingArrayMap,
                 alreadyVisitedOptionsMap,
                 alreadyVisitedCompositionOfFunctionsOptionsMap,
                 alreadyComposedPathsMap, returned, emitted>>

NextWrap == Next \/ WrapUnits

SpecWrap == Init /\ [][NextWrap]_vars

\* The same program on the inputs made of chains.
InitShapes ==
  /\ args \in ShapeInputs
  /\ params \in ParamsSet
  /\ pc = "idle"
  /\ ret = <<>>
  /\ stack = <<>>
  /\ optionsPaddingArrayMap = EmptyMap
  /\ alreadyVisitedOptionsMap = {}
  /\ alreadyVisitedCompositionOfFunctionsOptionsMap = {}
  /\ alreadyComposedPathsMap = {}
  /\ returned = <<>>
  /\ emitted = <<>>

SpecShapes == InitShapes /\ [][Next]_vars


(***************************************************************************)
(* Vocabulary of the properties: groups, nodes, markers and the product of *)
(* the groups, read off the arguments alone.                               *)
(***************************************************************************)
\* The declaration at position i of a group is its options marker.
IsMarker(arg, i) ==
  i = 0 /\ isArray(arg[1]) /\ areArrayItemsAllCoercibleToNumber(arg[1])

NodePositions(arg) == {i \in 0..(Len(arg) - 1) : ~IsMarker(arg, i)}

\* The node positions of a group in ascending order.
SortedPositions(arg) ==
  IF Len(arg) > 0 /\ IsMarker(arg, 0)
  THEN [k \in 1..(Len(arg) - 1) |-> k]
  ELSE [k \in 1..Len(arg) |-> k - 1]

NodeCount(g) == Cardinality(NodePositions(args[g + 1]))

RECURSIVE ProductFrom(_)
ProductFrom(g) == IF g >= l THEN 1 ELSE NodeCount(g) * ProductFrom(g + 1)

ProductSize == ProductFrom(0)

RECURSIVE ProductWithoutFrom(_, _)
ProductWithoutFrom(G, g) ==
  IF g >= l THEN 1
  ELSE (IF g = G THEN 1 ELSE NodeCount(g)) * ProductWithoutFrom(G, g + 1)

\* The whole group is marked optional.
GroupMarkedOptional(arg) ==
  /\ Len(arg) > 0
  /\ IsMarker(arg, 0)
  /\ \E k \in 1..Len(arg[1].items) : arg[1].items[k] = Num(OPTIONAL)

\* The declaration is an array that starts with an array.
HasInnerMarker(decl) ==
  isArray(decl) /\ Len(decl.items) > 0 /\ isArray(decl.items[1])

\* The declaration is marked optional by itself.
DeclMarkedOptional(decl) ==
  /\ HasInnerMarker(decl)
  /\ \E k \in 1..Len(decl.items[1].items) :
        decl.items[1].items[k] = Num(OPTIONAL)

NoMarkers ==
  \A g \in 1..l :
    /\ NodePositions(args[g]) = 0..(Len(args[g]) - 1)
    /\ \A i \in 1..Len(args[g]) : ~HasInnerMarker(args[g][i])

\* The node at position i of group g is optional.
NodeIsOptional(g, i) ==
  GroupMarkedOptional(args[g + 1]) \/ DeclMarkedOptional(args[g + 1][i + 1])

\* The units of a declaration, in declared order.
Units(decl) ==
  IF ~isArray(decl) THEN <<decl>>
  ELSE IF HasInnerMarker(decl) THEN Tail(decl.items)
  ELSE decl.items

\* The complete paths (one position per group, from group g on) in the
\* order of nested loops, group g outermost, positions ascending.
RECURSIVE PathsFrom(_)
PathsFrom(g) ==
  IF g >= l THEN <<<<>>>>
  ELSE LET ps == SortedPositions(args[g + 1])
           rest == PathsFrom(g + 1)
       IN  Flatten([a \in 1..Len(ps) |->
                      [b \in 1..Len(rest) |-> <<<<g, ps[a]>>>> \o rest[b]]])

ProductPaths == PathsFrom(0)

\* The composition of the nodes named by ids (<<argIndex, index>> pairs).
Composition(ids) ==
  compose(Flatten([k \in 1..Len(ids) |->
                     Units(args[ids[k][1] + 1][ids[k][2] + 1])]), params)

ExpectedFullResults ==
  [k \in 1..Len(ProductPaths) |-> Composition(ProductPaths[k])]

IsPrefix(s, t) == Len(s) <= Len(t) /\ s = SubSeq(t, 1, Len(s))

\* The entries of ret composed from complete paths, in order.
FullIndexes == {k \in 1..Len(emitted) : emitted[k].kind = "full"}

RECURSIVE FullResultsFrom(_)
FullResultsFrom(k) ==
  IF k > Len(ret) THEN <<>>
  ELSE (IF emitted[k].kind = "full" THEN <<ret[k]>> ELSE <<>>) \o
       FullResultsFrom(k + 1)

FullResults == FullResultsFrom(1)

\* An invocation has returned and its locals are still in place.
Returned == pc = "idle" /\ Len(returned) > 0

(***************************************************************************)
(* C1: with N >= 1 groups and no options marker anywhere, every returned   *)
(* sequence has as many entries as the product of the groups' node counts, *)
(* and every entry is the composition of one node of each group, in group  *)
(* order, applied to the call arguments: no shorter composition occurs.    *)
(***************************************************************************)
C1_ProductOfPlainGroups ==
  (l >= 1 /\ NoMarkers /\ Len(returned) > 0) =>
    LET expected == SeqToSet(ExpectedFullResults)
    IN  /\ Len(returned[1]) = ProductSize
        /\ \A k \in 1..Len(returned[1]) :
             /\ returned[1][k] \in expected
             /\ Len(returned[1][k].fns) = l
             /\ returned[1][k].params = params

C1_Witness ==
  /\ l = 3 /\ NoMarkers /\ Returned
  /\ ProductSize >= 8
  /\ Len(returned[1]) = ProductSize

(***************************************************************************)
(* C2: the results of the complete paths appear in the order of nested     *)
(* loops over the groups in declaration order, each loop ascending by      *)
(* position, the last group varying fastest; without markers this is the   *)
(* whole result sequence.                                                  *)
(***************************************************************************)
C2_NestedLoopOrder ==
  LET expected == ExpectedFullResults
  IN  /\ pc = "loop" => IsPrefix(FullResults, expected)
      /\ (Returned /\ l >= 1) => FullResults = expected
      /\ (l >= 1 /\ NoMarkers /\ Len(returned) > 0) => returned[1] = expected

C2_Witness ==
  /\ args = <<DocA, DocB, DocC>>
  /\ Returned
  /\ Len(returned[1]) = 24
  /\ returned[1][1].fns = <<"a", "d", "h">>
  /\ returned[1][2].fns = <<"a", "d", "i">>
  /\ returned[1][3].fns = <<"a", "e", "h">>
  /\ returned[1][4].fns = <<"a", "e", "i">>
  /\ returned[1][24].fns = <<"c", "g", "i">>


(***************************************************************************)
(* More vocabulary: reduced paths and their occurrences in the results.    *)
(***************************************************************************)
\* The path ids without the nodes of the groups in S.
Omit(ids, S) ==
  LET keep(id) == id[1] \notin S
  IN  SelectSeq(ids, keep)

\* The groups whose node in the complete path ids is optional.
OptionalGroupsOf(ids) ==
  {ids[k][1] : k \in {j \in 1..Len(ids) : NodeIsOptional(ids[j][1], ids[j][2])}}

CountIn(seq, x) == Cardinality({k \in 1..Len(seq) : seq[k] = x})

ReducedIndexes == {k \in 1..Len(emitted) : emitted[k].kind = "reduced"}

\* The index of the complete path's entry that precedes entry j.
FullBefore(j) ==
  LET before == {k \in FullIndexes : k < j}
  IN  CHOOSE k \in before : \A m \in before : m <= k

\* The reduced entries that follow the complete path's entry k, up to the
\* next complete path's entry.
BlockOf(k) ==
  {j \in ReducedIndexes : j > k /\ \A m \in FullIndexes : ~(k < m /\ m < j)}

\* G is marked optional as a whole and nothing else is optional.
OnlyOptionalGroup(G) ==
  /\ G \in 0..(l - 1)
  /\ GroupMarkedOptional(args[G + 1])
  /\ \A g \in 0..(l - 1) :
       /\ g # G => NodePositions(args[g + 1]) = 0..(Len(args[g + 1]) - 1)
       /\ \A i \in 1..Len(args[g + 1]) : ~HasInnerMarker(args[g + 1][i])

\* One position per group other than G, from group g on.
RECURSIVE PathsSkippingFrom(_, _)
PathsSkippingFrom(G, g) ==
  IF g >= l THEN <<<<>>>>
  ELSE IF g = G THEN PathsSkippingFrom(G, g + 1)
  ELSE LET ps == SortedPositions(args[g + 1])
           rest == PathsSkippingFrom(G, g + 1)
       IN  Flatten([a \in 1..Len(ps) |->
                      [b \in 1..Len(rest) |-> <<<<g, ps[a]>>>> \o rest[b]]])

OptionalGroupLaw(G) ==
  /\ \A k \in 1..Len(PathsSkippingFrom(G, 0)) :
       CountIn(ret, Composition(PathsSkippingFrom(G, 0)[k])) = 1
  /\ Len(ret) = ProductSize + ProductWithoutFrom(G, 0)

(***************************************************************************)
(* C3 as stated: when exactly one group G is marked optional as a whole    *)
(* and nothing else is optional, then for every choice of nodes in the     *)
(* other groups the returned sequence holds exactly once the composition   *)
(* without a node of G, and it has (product of all node counts) + (product *)
(* of the node counts of the groups other than G) entries.                 *)
(***************************************************************************)
C3_AsStated ==
  \A G \in 0..(l - 1) : (Returned /\ OnlyOptionalGroup(G)) => OptionalGroupLaw(G)

(***************************************************************************)
(* C3 amended: the same, provided G has at least one node.                 *)
(***************************************************************************)
C3_OptionalGroupAddsOneEach ==
  \A G \in 0..(l - 1) :
    (Returned /\ OnlyOptionalGroup(G) /\ NodeCount(G) >= 1) =>
      OptionalGroupLaw(G)

C3_Witness ==
  /\ args = <<DocA, DocOptionalB, DocC>>
  /\ Returned
  /\ OnlyOptionalGroup(1)
  /\ Len(ret) = 24 + 6
  /\ ret[2].fns = <<"a", "h">>
  /\ CountIn(ret, ret[2]) = 1

(***************************************************************************)
(* C4: for every complete path that was expanded and every non-empty       *)
(* subset of its optional nodes, the path without that subset has produced *)
(* a result (from this path or an earlier one), the empty path included;   *)
(* and when the invocation returns every complete path was expanded.       *)
(***************************************************************************)
C4_EveryReductionPresent ==
  LET fulls == FullIndexes
      paths == ProductPaths
  IN  /\ \A k \in fulls :
           LET ids == emitted[k].ids
               later == {m \in fulls : m > k}
           IN  \A S \in (SUBSET OptionalGroupsOf(ids)) \ {{}} :
                 \E j \in 1..Len(emitted) :
                   /\ emitted[j].kind = "reduced"
                   /\ \A m \in later : j < m
                   /\ emitted[j].ids = Omit(ids, S)
                   /\ ret[j] = Composition(Omit(ids, S))
      /\ (Returned /\ l >= 1) =>
           \A k \in 1..Len(paths) :
             \E j \in fulls : emitted[j].ids = paths[k]

C4_Witness ==
  /\ Returned /\ l = 2
  /\ \E k \in FullIndexes :
       /\ OptionalGroupsOf(emitted[k].ids) = {0, 1}
       /\ \E j \in ReducedIndexes : emitted[j].ids = <<>> /\ ret[j].fns = <<>>
  /\ \E k \in FullIndexes : \E j \in ReducedIndexes :
       /\ j < k
       /\ \E S \in (SUBSET OptionalGroupsOf(emitted[k].ids)) \ {{}} :
            emitted[j].ids = Omit(emitted[k].ids, S)

(***************************************************************************)
(* C5: within one invocation no two results come from reduced paths with   *)
(* the same identity, whichever complete paths reduce to it; the ledger    *)
(* holds exactly the identities of the reduced paths that produced a       *)
(* result, and a reduced path found there appends nothing.                 *)
(***************************************************************************)
C5_AtMostOncePerReducedPath ==
  /\ \A j, k \in ReducedIndexes : emitted[j].ids = emitted[k].ids => j = k
  /\ alreadyComposedPathsMap =
       {<<Len(emitted[k].ids)>> \o Flatten(emitted[k].ids) : k \in ReducedIndexes}
  /\ Len(ret) = Len(emitted)

C5_Witness ==
  \E j \in ReducedIndexes : \E k1, k2 \in FullIndexes :
    /\ k1 < k2
    /\ emitted[k1].ids # emitted[k2].ids
    /\ \E S \in (SUBSET OptionalGroupsOf(emitted[k1].ids)) \ {{}} :
         emitted[j].ids = Omit(emitted[k1].ids, S)
    /\ \E S \in (SUBSET OptionalGroupsOf(emitted[k2].ids)) \ {{}} :
         emitted[j].ids = Omit(emitted[k2].ids, S)


(***************************************************************************)
(* C6 and C7 speak of the entries one complete path appends.               *)
(***************************************************************************)
\* The reduced paths appended by the complete path of entry k, in order.
RECURSIVE AppendedFrom(_)
AppendedFrom(j) ==
  IF j > Len(emitted) \/ emitted[j].kind = "full" THEN <<>>
  ELSE <<emitted[j].ids>> \o AppendedFrom(j + 1)

AppendedBy(k) == AppendedFrom(k + 1)

\* The reduced paths that produced a result before entry k.
ReducedBefore(k) == {emitted[j].ids : j \in {i \in ReducedIndexes : i < k}}

\* The complete path ids has exactly two optional nodes, in the groups g1
\* and g2, both marked by themselves.
TwoOptionalNodes(ids, g1, g2) ==
  /\ g1 < g2
  /\ OptionalGroupsOf(ids) = {g1, g2}
  /\ ~GroupMarkedOptional(args[g1 + 1])
  /\ ~GroupMarkedOptional(args[g2 + 1])

ThreeReductions(ids, g1, g2) ==
  <<Omit(ids, {g1}), Omit(ids, {g2}), Omit(ids, {g1, g2})>>

(***************************************************************************)
(* C6 as stated: a complete path with exactly two optional nodes, marked   *)
(* individually in two different groups, appends three results after its   *)
(* full composition: without the first optional node, without the second,  *)
(* without both, in this order.                                            *)
(***************************************************************************)
C6_AsStated ==
  \A k \in FullIndexes : \A g1, g2 \in 0..(l - 1) :
    TwoOptionalNodes(emitted[k].ids, g1, g2) =>
      AppendedBy(k) = ThreeReductions(emitted[k].ids, g1, g2)

(***************************************************************************)
(* C6 amended: such a path goes through the three reduced paths in this    *)
(* order (without the first optional node, without the second, without     *)
(* both) and appends each one that no earlier complete path has produced;  *)
(* it appends all three when no earlier path has produced any of them, as  *)
(* when these are the only two optional nodes of the input.  For every     *)
(* complete path the omitted subsets of the results it appends never       *)
(* shrink in size.                                                         *)
(***************************************************************************)
C6_TwoOptionalNodesInOrder ==
  LET fulls == FullIndexes
  IN  /\ \A k \in fulls : \A g1, g2 \in 0..(l - 1) :
           TwoOptionalNodes(emitted[k].ids, g1, g2) =>
             LET before == ReducedBefore(k)
                 fresh(r) == r \notin before
             IN  AppendedBy(k) =
                   SelectSeq(ThreeReductions(emitted[k].ids, g1, g2), fresh)
      /\ \A i, j \in ReducedIndexes :
           (i < j /\ emitted[i].from = emitted[j].from) =>
             Len(emitted[i].omitted) <= Len(emitted[j].omitted)

C6_Witness ==
  /\ l = 2
  /\ \E k \in FullIndexes :
       /\ TwoOptionalNodes(emitted[k].ids, 0, 1)
       /\ emitted[k].ids = <<<<0, 0>>, <<1, 0>>>>
       /\ AppendedBy(k) = <<<<<<1, 0>>>>, <<<<0, 0>>>>, <<>>>>
       /\ ret[k + 1].fns = <<"f10">>
       /\ ret[k + 2].fns = <<"f00">>
       /\ ret[k + 3].fns = <<>>
  /\ \E k \in FullIndexes :
       /\ TwoOptionalNodes(emitted[k].ids, 0, 1)
       /\ emitted[k].ids = <<<<0, 1>>, <<1, 0>>>>
       /\ AppendedBy(k) = <<<<<<0, 1>>>>>>

(***************************************************************************)
(* The two parts of C7.  Every result of a reduced path stands after the   *)
(* full result of the complete path that first produced it and before the  *)
(* full result of the next complete path; within an invocation ret only    *)
(* grows at its end.                                                       *)
(* Groups [a, b] and [[OPTIONAL], c] give a(c(..)), a(..), b(c(..)),       *)
(* b(..).                                                                  *)
(***************************************************************************)
C7_ReducedFollowTheirPath ==
  /\ Len(emitted) > 0 => emitted[1].kind = "full"
  /\ \A j \in ReducedIndexes :
       /\ emitted[j].from = emitted[FullBefore(j)].ids
       /\ emitted[j].ids = Omit(emitted[j].from, SeqToSet(emitted[j].omitted))
       /\ ret[FullBefore(j)] = Composition(emitted[j].from)
       /\ ret[j] = Composition(emitted[j].ids)
  /\ (Returned /\ args = ArgsOf(<<<<0, <<0, 0>>>>, <<1, <<0>>>>>>)) =>
       [k \in 1..Len(ret) |-> ret[k].fns] =
         <<<<"f00", "f11">>, <<"f00">>, <<"f01", "f11">>, <<"f01">>>>
  /\ (Returned /\ args = <<DocA, DocOptionalB, DocOptionalI>>) =>
       [k \in 1..9 |-> ret[k].fns] =
         <<<<"a", "d", "h">>, <<"a", "h">>, <<"a", "d", "i">>, <<"a", "i">>,
           <<"a", "d">>, <<"a">>, <<"a", "e", "h">>, <<"a", "e", "i">>,
           <<"a", "e">>>>

C7_AppendOnlyStep == pc = "loop" => IsPrefix(ret, ret')

\* C7: the reduced results of a complete path lie between its full result
\* and the next complete path's full result, in every state, and every step
\* of an invocation leaves the entries already in ret as they are.
C7_Interleaving == []C7_ReducedFollowTheirPath /\ [][C7_AppendOnlyStep]_vars

C7_Witness ==
  /\ Returned
  /\ args = ArgsOf(<<<<0, <<0, 0>>>>, <<1, <<0>>>>>>)
  /\ returned[1] = <<compose(<<Fn("f00"), Fn("f11")>>, params),
                     compose(<<Fn("f00")>>, params),
                     compose(<<Fn("f01"), Fn("f11")>>, params),
                     compose(<<Fn("f01")>>, params)>>


(***************************************************************************)
(* C8: the traversal expands every element of the product of the groups'   *)
(* nodes exactly once, and each expansion appends the full composition of  *)
(* its path whatever the flags and the ledger hold: the results of         *)
(* complete paths are as many as the product of the node counts.           *)
(***************************************************************************)
C8_EveryProductPathOnce ==
  LET fulls == FullIndexes
      paths == ProductPaths
  IN  /\ \A j, k \in fulls : emitted[j].ids = emitted[k].ids => j = k
      /\ \A k \in fulls :
           /\ emitted[k].ids \in SeqToSet(paths)
           /\ ret[k] = Composition(emitted[k].ids)
      /\ (Returned /\ l >= 1) =>
           /\ Cardinality(fulls) = ProductSize
           /\ \A p \in 1..Len(paths) :
                Cardinality({k \in fulls : emitted[k].ids = paths[p]}) = 1

C8_Witness ==
  /\ args = <<DocA, DocOptionalB, DocOptionalI>>
  /\ Returned
  /\ ProductSize = 24
  /\ Cardinality(FullIndexes) = 24
  /\ Cardinality(ReducedIndexes) = 6 + 12 + 3
  /\ alreadyComposedPathsMap # {}

(***************************************************************************)
(* C9: with zero groups every invocation returns the empty sequence at     *)
(* once: no local is set up, nothing is pushed on the stack, nothing is    *)
(* parsed and nothing is composed.                                         *)
(***************************************************************************)
C9_NoGroupsReturnsEmpty ==
  l = 0 =>
    /\ Len(returned) > 0 => returned[1] = <<>>
    /\ pc = "idle"
    /\ stack = <<>>
    /\ ret = <<>>
    /\ emitted = <<>>
    /\ optionsPaddingArrayMap = EmptyMap
    /\ alreadyVisitedOptionsMap = {}
    /\ alreadyVisitedCompositionOfFunctionsOptionsMap = {}
    /\ alreadyComposedPathsMap = {}

C9_Witness == l = 0 /\ params = <<1, 2, 3>> /\ returned = <<<<>>>>

(***************************************************************************)
(* C10: the invocations of one returned function, with the same groups and *)
(* call arguments, return the same sequence: the flags, stack and ledger   *)
(* of an earlier invocation neither suppress nor add a result.             *)
(***************************************************************************)
C10_InvocationsAgree ==
  (pc = "loop" /\ Len(returned) > 0) =>
    /\ IsPrefix(ret, returned[1])
    /\ stack = <<>> => ret = returned[1]

C10_Witness ==
  /\ pc = "loop" /\ Len(returned) > 0 /\ stack = <<>>
  /\ l >= 2
  /\ ret = returned[1]
  /\ Cardinality(ReducedIndexes) >= 3
  /\ \E j \in ReducedIndexes : \E k \in FullIndexes :
       k > j /\ \E S \in (SUBSET OptionalGroupsOf(emitted[k].ids)) \ {{}} :
                  emitted[j].ids = Omit(emitted[k].ids, S)


(***************************************************************************)
(* Vocabulary for the inputs made of chains.                               *)
(***************************************************************************)
\* s occurs in t as a block of adjacent entries.
OccursIn(s, t) ==
  \E o \in 0..(Len(t) - Len(s)) : SubSeq(t, o + 1, o + Len(s)) = s

\* The positions <<g, i>> of the nodes declared as arrays.
ChainPositions ==
  UNION {{<<g, i>> : i \in {j \in NodePositions(args[g + 1]) :
                               isArray(args[g + 1][j + 1])}} :
         g \in 0..(l - 1)}

\* The input of the claim's example: A = [[a, z], b, c].
ChainExample ==
  <<<<Arr(<<Fn("a"), Fn("z")>>), Fn("b"), Fn("c")>>, DocB, DocC>>

(***************************************************************************)
(* C11: every result is the composition, applied to the call arguments, of *)
(* the units of its path's nodes concatenated in path order (ascending     *)
(* group index), each node's units in declared order; the units of a chain *)
(* occur together and in order or not at all.  With A = [[a, z], b, c] the *)
(* first result is a(z(d(h(..)))) and a never occurs without z.            *)
(***************************************************************************)
C11_FlattenedInPathOrder ==
  /\ Len(ret) = Len(emitted)
  /\ \A k \in 1..Len(emitted) :
       LET ids == emitted[k].ids
       IN  /\ \A m, n \in 1..Len(ids) : m < n => ids[m][1] < ids[n][1]
           /\ ret[k].fns =
                Flatten([m \in 1..Len(ids) |->
                           FnNames(Units(args[ids[m][1] + 1][ids[m][2] + 1]))])
           /\ ret[k].params = params
           /\ \A c \in ChainPositions :
                LET names == FnNames(Units(args[c[1] + 1][c[2] + 1]))
                IN  \/ OccursIn(names, ret[k].fns)
                    \/ \A m \in 1..Len(names) :
                         names[m] \notin SeqToSet(ret[k].fns)
  /\ (Returned /\ args = ChainExample) =>
       /\ ret[1].fns = <<"a", "z", "d", "h">>
       /\ \A k \in 1..Len(ret) :
            "a" \in SeqToSet(ret[k].fns) => OccursIn(<<"a", "z">>, ret[k].fns)

C11_Witness ==
  /\ Returned
  /\ args = ChainExample
  /\ Len(returned[1]) = 24
  /\ [k \in 1..3 |-> returned[1][k].fns] =
       <<<<"a", "z", "d", "h">>, <<"a", "z", "d", "i">>,
         <<"a", "z", "e", "h">>>>
  /\ returned[1][9].fns = <<"b", "d", "h">>


(***************************************************************************)
(* C12: under SpecWrap the groups start as given and, once a result has    *)
(* been returned, may be replaced by the same groups with every plain      *)
(* function f written [f]; the first invocation on the wrapped groups is   *)
(* thus compared with a result of the groups as given.  The wrapped groups *)
(* give the same results in the same order: [[a], [b], [c]],               *)
(* [[d], [e], [f], [g]], [[h], [i]] gives the 24 results of [a, b, c],     *)
(* [d, e, f, g], [h, i].                                                   *)
(***************************************************************************)
AllWrapped == l >= 1 /\ WrapGroups(args) = args

C12_WrappingKeepsResults ==
  /\ (AllWrapped /\ pc = "loop" /\ Len(returned) > 0) =>
       /\ IsPrefix(ret, returned[1])
       /\ stack = <<>> => ret = returned[1]
  /\ (args = <<DocWrappedA, DocWrappedB, DocWrappedC>> /\ Len(returned) > 0) =>
       /\ Len(returned[1]) = 24
       /\ [k \in 1..4 |-> returned[1][k].fns] =
            <<<<"a", "d", "h">>, <<"a", "d", "i">>, <<"a", "e", "h">>,
              <<"a", "e", "i">>>>
       /\ returned[1][24].fns = <<"c", "g", "i">>

C12_Witness ==
  /\ args = <<DocWrappedA, DocWrappedB, DocWrappedC>>
  /\ pc = "loop" /\ stack = <<>>
  /\ Len(ret) = 24
  /\ ret = returned[1]
  /\ ret[2].fns = <<"a", "d", "i">>


(***************************************************************************)
(* C13: every reduced path that produced a result comes from a complete    *)
(* path (one node of each group) from which a non-empty set of nodes was   *)
(* removed, each removed node being optional: its group starts with a      *)
(* marker holding OPTIONAL, or its own declaration does, or both.  The     *)
(* nodes that are not optional are all kept, in their order; and the       *)
(* positions the code finds optional on a complete path are exactly those  *)
(* of its optional nodes.                                                  *)
(***************************************************************************)
IsCompletePathIds(ids) ==
  /\ Len(ids) = l
  /\ \A m \in 1..Len(ids) :
       ids[m][1] = m - 1 /\ ids[m][2] \in NodePositions(args[m])

C13_OnlyOptionalNodesRemoved ==
  /\ \A j \in ReducedIndexes :
       LET from == emitted[j].from
           ids == emitted[j].ids
           removed == SeqToSet(from) \ SeqToSet(ids)
           kept(id) == id \notin removed
       IN  /\ IsCompletePathIds(from)
           /\ removed # {}
           /\ \A r \in removed : NodeIsOptional(r[1], r[2])
           /\ ids = SelectSeq(from, kept)
           /\ \A m \in 1..Len(from) :
                ~NodeIsOptional(from[m][1], from[m][2]) =>
                  from[m] \in SeqToSet(ids)
           /\ ret[j] = Composition(ids)
  /\ (pc = "loop" /\ stack # <<>> /\ Len(Top(stack).path) = l) =>
       LET path == Top(stack).path
       IN  SeqToSet(Optionals(optionsPaddingArrayMap, path)) =
             {m \in 0..(l - 1) :
                NodeIsOptional(path[m + 1].argIndex, path[m + 1].index)}

C13_Witness ==
  /\ l = 2
  /\ \E j \in ReducedIndexes :
       LET removed == SeqToSet(emitted[j].from) \ SeqToSet(emitted[j].ids)
       IN  /\ Len(emitted[j].ids) = 1
           /\ ~NodeIsOptional(emitted[j].ids[1][1], emitted[j].ids[1][2])
           /\ \E r \in removed :
                /\ GroupMarkedOptional(args[r[1] + 1])
                /\ DeclMarkedOptional(args[r[1] + 1][r[2] + 1])
           /\ ret[j].fns = <<FnName(emitted[j].ids[1][1], emitted[j].ids[1][2])>>


(***************************************************************************)
(* C14 speaks of the groups without nodes: empty, or holding a marker      *)
(* only.                                                                   *)
(***************************************************************************)
GroupsWithoutNodes == {g \in 0..(l - 1) : NodeCount(g) = 0}

\* One position per group that has nodes, from group g on.
RECURSIVE RemainingPathsFrom(_)
RemainingPathsFrom(g) ==
  IF g >= l THEN <<<<>>>>
  ELSE IF NodeCount(g) = 0 THEN RemainingPathsFrom(g + 1)
  ELSE LET ps == SortedPositions(args[g + 1])
           rest == RemainingPathsFrom(g + 1)
       IN  Flatten([a \in 1..Len(ps) |->
                      [b \in 1..Len(rest) |-> <<<<g, ps[a]>>>> \o rest[b]]])

\* No frame of the stack holds a node of a group without nodes.
NoNodeOfEmptyGroup ==
  \A k \in 1..Len(stack) : stack[k].node.argIndex \notin GroupsWithoutNodes

(***************************************************************************)
(* C14 as stated: a group without nodes is left out of every composition   *)
(* and the nodes of the remaining groups are still combined: when some     *)
(* group has no node and some group has, the returned sequence holds the   *)
(* composition of every choice of one node from each group that has nodes. *)
(***************************************************************************)
C14_AsStated ==
  (Returned /\ GroupsWithoutNodes # {} /\
   GroupsWithoutNodes # 0..(l - 1)) =>
    /\ NoNodeOfEmptyGroup
    /\ \A k \in 1..Len(RemainingPathsFrom(0)) :
         Composition(RemainingPathsFrom(0)[k]) \in SeqToSet(returned[1])

(***************************************************************************)
(* C14 amended: a group without nodes yields no node, and the product is   *)
(* then empty: no path becomes complete, nothing is composed and every     *)
(* invocation returns the empty sequence, whatever the other groups hold   *)
(* and also when the group's marker holds OPTIONAL.                        *)
(***************************************************************************)
C14_GroupWithoutNodesEmptiesProduct ==
  (l >= 1 /\ GroupsWithoutNodes # {}) =>
    /\ NoNodeOfEmptyGroup
    /\ \A k \in 1..Len(stack) : Len(stack[k].path) < l
    /\ ret = <<>>
    /\ emitted = <<>>
    /\ alreadyComposedPathsMap = {}
    /\ Len(returned) > 0 => returned[1] = <<>>

C14_Witness ==
  /\ Returned
  /\ l = 2
  /\ NodeCount(0) = 2
  /\ NodeCount(1) = 0
  /\ GroupMarkedOptional(args[2])
  /\ hasOption(optionsPaddingArrayMap, OPTIONAL, 1, Undefined)
  /\ returned = <<<<>>>>


(***************************************************************************)
(* C15 speaks of what the parser makes of an array: the flags it records   *)
(* and the functions of the node it pushes.                                *)
(***************************************************************************)
\* The option keys an array of options stands for.
OptionKeys(marker) == {PropertyKey(marker.items[k]) : k \in 1..Len(marker.items)}

\* The flags recorded for the whole group g, for position i of group g.
GroupFlags(opm, g) == IF g \in DOMAIN opm THEN opm[g].optionsMap ELSE {}

PositionFlags(opm, g, i) ==
  IF g \in DOMAIN opm /\ i \in DOMAIN opm[g].specificComposition
  THEN opm[g].specificComposition[i].optionsMap
  ELSE {}

\* The first element of the inner array decl is an array whose items are
\* not all coercible to numbers.
StartsWithOtherArray(decl) ==
  /\ HasInnerMarker(decl)
  /\ ~areArrayItemsAllCoercibleToNumber(decl.items[1])

\* The names of the functions found in the values of s, at any depth.
RECURSIVE NamesIn(_)
NamesIn(s) ==
  UNION {IF s[k].t = "fn" THEN {s[k].name}
         ELSE IF s[k].t = "arr" THEN NamesIn(s[k].items)
         ELSE {} : k \in 1..Len(s)}

(***************************************************************************)
(* C15 as stated: an array is an options marker exactly when it is the     *)
(* first element of its group or chain and all its items are coercible to  *)
(* numbers; an array in first position of a chain with other items is part *)
(* of the chain: its functions are among those of the node and no flag is  *)
(* recorded for the node's position.                                       *)
(***************************************************************************)
C15_AsStated ==
  \A k \in 1..Len(stack) :
    LET node == stack[k].node
        decl == args[node.argIndex + 1][node.index + 1]
    IN  StartsWithOtherArray(decl) =>
          /\ NamesIn(decl.items[1].items) \subseteq NamesIn(node.fns)
          /\ PositionFlags(optionsPaddingArrayMap, node.argIndex,
                           node.index) = {}

(***************************************************************************)
(* C15 amended: the first declaration of a group is the group's marker     *)
(* exactly when it is an array whose items are all coercible to numbers;   *)
(* every other array of a group is a chain.  Inside a chain an array in    *)
(* first position is the node's marker whatever its items are: its items   *)
(* are recorded as flags of the position and none of them is composed.     *)
(* [[x], f] gives the node f with the flag String(x), which is not         *)
(* OPTIONAL: the results hold f and never x, and nothing is left out.      *)
(***************************************************************************)
C15_MarkerByLevel ==
  /\ \A k \in 1..Len(stack) :
       LET node == stack[k].node
           g == node.argIndex
           i == node.index
           arg == args[g + 1]
           decl == arg[i + 1]
       IN  /\ ~IsMarker(arg, i)
           /\ node.fns = Units(decl)
           /\ PositionFlags(optionsPaddingArrayMap, g, i) =
                (IF HasInnerMarker(decl) THEN OptionKeys(decl.items[1])
                 ELSE {})
           /\ GroupFlags(optionsPaddingArrayMap, g) =
                (IF IsMarker(arg, 0) THEN OptionKeys(arg[1]) ELSE {})
           /\ StartsWithOtherArray(decl) =>
                /\ NamesIn(decl.items[1].items) \cap NamesIn(node.fns) = {}
                /\ ~hasOption(optionsPaddingArrayMap, OPTIONAL, g, i)
  /\ \A k \in 1..Len(ret) : \A g \in 0..(l - 1) : \A i \in NodePositions(args[g + 1]) :
       PaddedName(g, i) \notin SeqToSet(ret[k].fns)
  /\ (Returned /\ args = ShapeArgsOf(<<<<3, 1>>>>)) =>
       returned[1] = <<compose(<<Fn(FnName(0, 0))>>, params)>>

C15_Witness ==
  /\ l = 2
  /\ args[1] = ShapeGroup(0, 5, 1)
  /\ args[2] = ShapeGroup(1, 3, 2)
  /\ Len(stack) = 2
  /\ stack[2].node = [fns |-> <<Fn(FnName(1, 0))>>, argIndex |-> 1, index |-> 0]
  /\ PositionFlags(optionsPaddingArrayMap, 1, 0) = {"function x10"}
  /\ PositionFlags(optionsPaddingArrayMap, 1, 1) = {"function x11"}
  /\ GroupFlags(optionsPaddingArrayMap, 0) = {"1"}
  /\ GroupFlags(optionsPaddingArrayMap, 1) = {}


(***************************************************************************)
(* C16 and C19 speak of the flags recorded for a group, against the flags  *)
(* its declarations stand for.                                             *)
(***************************************************************************)
\* The flags of group g in opm: those of the whole group and those of each
\* position.
FlagsOf(opm, g) ==
  [group |-> GroupFlags(opm, g),
   positions |-> [i \in 0..(Len(args[g + 1]) - 1) |-> PositionFlags(opm, g, i)]]

NoFlags(g) ==
  [group |-> {}, positions |-> [i \in 0..(Len(args[g + 1]) - 1) |-> {}]]

DeclaredFlags(g) ==
  LET arg == args[g + 1]
  IN  [group |-> IF Len(arg) > 0 /\ IsMarker(arg, 0) THEN OptionKeys(arg[1])
                 ELSE {},
       positions |->
         [i \in 0..(Len(arg) - 1) |->
            IF ~IsMarker(arg, i) /\ HasInnerMarker(arg[i + 1])
            THEN OptionKeys(arg[i + 1].items[1])
            ELSE {}]]

\* Group g is parsed by this step of the loop: addToStack(g) runs in it.
ParsedByStep(g) ==
  /\ stack # <<>>
  /\ Len(Top(stack).path) < l
  /\ g = Top(stack).node.argIndex + 1

\* The flags of a group are those of its declarations once it is parsed,
\* and none before.
C16_FlagsAllOrNone ==
  \A g \in 0..(l - 1) :
    LET flags == FlagsOf(optionsPaddingArrayMap, g)
    IN  /\ flags \in {NoFlags(g), DeclaredFlags(g)}
        /\ (\E k \in 1..Len(stack) : stack[k].node.argIndex >= g) =>
             flags = DeclaredFlags(g)

\* A step of the loop changes the flags of the group it parses only, and
\* only when that group had none; the marks of visited markers stay.  A
\* new invocation starts with the flags of group 0 alone.
C16_FlagsKeptStep ==
  /\ (pc = "loop" /\ pc' = "loop") =>
       /\ \A g \in 0..(l - 1) :
            \/ FlagsOf(optionsPaddingArrayMap', g) =
                 FlagsOf(optionsPaddingArrayMap, g)
            \/ /\ ParsedByStep(g)
               /\ FlagsOf(optionsPaddingArrayMap, g) = NoFlags(g)
               /\ FlagsOf(optionsPaddingArrayMap', g) = DeclaredFlags(g)
       /\ alreadyVisitedOptionsMap \subseteq alreadyVisitedOptionsMap'
       /\ alreadyVisitedCompositionOfFunctionsOptionsMap \subseteq
            alreadyVisitedCompositionOfFunctionsOptionsMap'
  /\ (pc = "idle" /\ pc' = "loop") =>
       \A g \in 0..(l - 1) :
         FlagsOf(optionsPaddingArrayMap', g) =
           (IF g = 0 THEN DeclaredFlags(g) ELSE NoFlags(g))

\* C16: once a group has been parsed, its flags (of the whole group and of
\* each position) are those its declarations stand for, and every later
\* addToStack, for the same group under another prefix or for another
\* group, leaves them as they are.
C16_ParsingKeepsFlags == []C16_FlagsAllOrNone /\ [][C16_FlagsKeptStep]_vars

\* Group 1 is parsed again for the second node of group 0.
C16_Witness ==
  /\ pc = "loop"
  /\ l = 2
  /\ \E k \in 1..Len(stack) :
       /\ Len(stack[k].path) = 2
       /\ stack[k].path[1].index = 2
  /\ \E k \in FullIndexes : emitted[k].ids[1] = <<0, 1>>
  /\ FlagsOf(optionsPaddingArrayMap, 0) = DeclaredFlags(0)
  /\ FlagsOf(optionsPaddingArrayMap, 1) = DeclaredFlags(1)
  /\ DeclaredFlags(0).group = {"1"}
  /\ DeclaredFlags(1).group = {"1"}
  /\ DeclaredFlags(1).positions[1] = {"1"}


(***************************************************************************)
(* C17: every invocation terminates: from any state of the loop the stack  *)
(* becomes empty and the function returns ret, which then holds the result *)
(* of every complete path of the product together with the results of its  *)
(* expansion.                                                              *)
(***************************************************************************)
Terminated ==
  /\ pc = "idle"
  /\ stack = <<>>
  /\ returned = <<ret>>
  /\ Cardinality(FullIndexes) = ProductSize
  /\ Len(ret) = Len(emitted)

C17_Terminates == (pc = "loop") ~> Terminated

C17_Witness ==
  /\ Terminated
  /\ l = 3
  /\ ProductSize = 24
  /\ Len(ret) = 24 + 21


(***************************************************************************)
(* C18 as stated: the stack never holds more frames than there are groups. *)
(***************************************************************************)
C18_AsStated == Len(stack) <= l

\* The number of nodes of all the groups.
TotalNodes == Sum([g \in 1..l |-> NodeCount(g - 1)])

(***************************************************************************)
(* C18 amended: the stack holds the pending nodes of every group reached   *)
(* so far, so its depth grows with the sizes of the groups: it is bounded  *)
(* by the number of nodes of all the groups (by that number less one per   *)
(* group after the first when every group has a node).  It is the path of  *)
(* a frame whose length is bounded by the number of groups: it holds one   *)
(* node of each of the groups 0, 1, ... up to the frame's own.             *)
(***************************************************************************)
C18_StackBoundedByNodes ==
  /\ Len(stack) <= TotalNodes
  /\ GroupsWithoutNodes = {} => Len(stack) <= TotalNodes - (l - 1)
  /\ \A k \in 1..Len(stack) :
       LET path == stack[k].path
       IN  /\ Len(path) \in 1..l
           /\ path[Len(path)] = stack[k].node
           /\ \A m \in 1..Len(path) : path[m].argIndex = m - 1

C18_Witness ==
  /\ l = 2
  /\ NodeCount(0) = 2
  /\ NodeCount(1) = 2
  /\ Len(stack) = 3
  /\ Len(stack[1].path) = 1
  /\ Len(stack[3].path) = 2


(***************************************************************************)
(* C19: when a complete path is on top of the stack, and ever after in the *)
(* invocation, the flags of every group are those its declarations stand   *)
(* for, the marker at position 0 included although the scan reaches it     *)
(* last.  So every complete path is expanded with the same flags: the      *)
(* first one appends a result for every non-empty set of its optional      *)
(* nodes, and no path leaves out a node that is not optional or misses one *)
(* that is.                                                                *)
(***************************************************************************)
AllFlagsRecorded ==
  \A g \in 0..(l - 1) : FlagsOf(optionsPaddingArrayMap, g) = DeclaredFlags(g)

\* 2^n.
RECURSIVE PowerOfTwo(_)
PowerOfTwo(n) == IF n = 0 THEN 1 ELSE 2 * PowerOfTwo(n - 1)

C19_FlagsRecordedBeforeExpansion ==
  /\ (pc = "loop" /\ stack # <<>> /\ Len(Top(stack).path) = l) =>
       AllFlagsRecorded
  /\ emitted # <<>> => AllFlagsRecorded
  /\ emitted # <<>> =>
       /\ emitted[1].kind = "full"
       /\ Len(AppendedBy(1)) =
            PowerOfTwo(Cardinality(OptionalGroupsOf(emitted[1].ids))) - 1
  /\ \A j \in ReducedIndexes :
       SeqToSet(emitted[j].omitted) \subseteq OptionalGroupsOf(emitted[j].from)
  /\ \A k \in FullIndexes : \A g \in OptionalGroupsOf(emitted[k].ids) :
       \E j \in ReducedIndexes : emitted[j].ids = Omit(emitted[k].ids, {g})

C19_Witness ==
  /\ pc = "loop"
  /\ l = 2
  /\ Cardinality(FullIndexes) = 1
  /\ stack # <<>>
  /\ GroupMarkedOptional(args[1])
  /\ GroupMarkedOptional(args[2])
  /\ DeclMarkedOptional(args[2][Len(args[2])])
  /\ AllFlagsRecorded
  /\ Len(AppendedBy(1)) = 3

====
